---- MODULE Spec2Model ----
(***************************************************************************)
(* Model of package result (src/result/result.go): the Result combinators  *)
(* over  type Result[A any] func() (A, error).                             *)
(*                                                                         *)
(* A Result is a Go closure.  Two kinds of closure occur:                  *)
(*   - the closures made by Ok and Error, which capture a pair and return  *)
(*     it on every invocation (k = "const");                               *)
(*   - caller-supplied closures, which may have side effects and may       *)
(*     return a different pair on a later invocation (k = "src").  Every   *)
(*     invocation of one is recorded in the log.                           *)
(* Every operator below takes the log so far and returns what the Go       *)
(* function returns together with the log extended by the invocations and  *)
(* calls that the Go function made, in the order it made them.             *)
(***************************************************************************)
EXTENDS Integers, Sequences, FiniteSets, TLC

VARIABLES pc, op, inp, ret, blog, log, out, alt, heap

vars == <<pc, op, inp, ret, blog, log, out, alt, heap>>

\* ------------------------------------------------------------ domains

\* Values of the type parameters A and B are the integers 0..MaxVal.
MaxVal == 1

Val == 0..MaxVal

\* The zero value of A that a named result  (a A, _ error)  starts with.
ZeroA == 0

\* The nil error: a Result succeeded iff the error it returned is nil.
Nil == "nil"

\* The non-nil errors (the tests' errFailed and errWrapped).
Err == {"failed", "wrapped: failed"}

\* The pair (A, error) a Result returns.
Pair(a, err) == [a |-> a, err |-> err]

\* Every pair a caller's closure over Val may return.
Outcome == {Pair(a, e) : a \in Val, e \in Err \cup {Nil}}

\* Every pair a caller's closure yielding a func(A) B may return.
OutcomeF == {Pair(g, e) : g \in [Val -> Val], e \in Err \cup {Nil}}

\* A caller's closure: its first invocation returns first, every later one rest.
Src(id, first, rest) == [k |-> "src", id |-> id, first |-> first, rest |-> rest]

Sources(id, O) == {Src(id, o1, o2) : o1 \in O, o2 \in O}

Stable(id, O) == {Src(id, o, o) : o \in O}

\* A caller's function, with the name its calls are logged under.
Fn(name, tab) == [name |-> name, tab |-> tab]

\* What the tests' assertEq looks at: the error if there is one, else the value.
Observed(r) ==
  IF r.err # Nil THEN [ok |-> FALSE, a |-> ZeroA, err |-> r.err]
  ELSE [ok |-> TRUE, a |-> r.a, err |-> Nil]

\* ------------------------------------------------------------ the log

Invoked(id) == [ev |-> "invoke", who |-> id, a |-> ZeroA, e |-> Nil]

Called(name, a, e) == [ev |-> "call", who |-> name, a |-> a, e |-> e]

Occurrences(l, ev, who) == {i \in DOMAIN l : l[i].ev = ev /\ l[i].who = who}

Count(l, ev, who) == Cardinality(Occurrences(l, ev, who))

\* Invoking a Result: fa().
Invoke(c, l) ==
  IF c.k = "const" THEN [r |-> c.r, log |-> l]
  ELSE [r |-> IF Count(l, "invoke", c.id) = 0 THEN c.first ELSE c.rest,
        log |-> Append(l, Invoked(c.id))]

\* Calling a caller's function of a value: f(a).
Call(f, a, l) == [y |-> f.tab[a], log |-> Append(l, Called(f.name, a, Nil))]

\* Calling a caller's function of an error: f(err).
CallE(f, e, l) == [y |-> f.tab[e], log |-> Append(l, Called(f.name, ZeroA, e))]

\* Calling a caller's function of no argument: onNil().
Call0(f, l) == [y |-> f.tab, log |-> Append(l, Called(f.name, ZeroA, Nil))]

\* ------------------------------------------------------------ result.go

Ok(a) == [k |-> "const", r |-> Pair(a, Nil)]

Error(err) == [k |-> "const", r |-> Pair(ZeroA, err)]

Zero == Pair(ZeroA, Nil)

MapCallsOnFailure(fa, f, l) ==
  LET i == Invoke(fa, l)
      c == Call(f, i.r.a, i.log)
  IN  IF i.r.err # Nil THEN [ret |-> Error(i.r.err), log |-> c.log]
      ELSE [ret |-> Ok(c.y), log |-> c.log]

Map(fa, f, l) ==
  LET i == Invoke(fa, l)
  IN  IF i.r.err # Nil THEN [ret |-> Error(i.r.err), log |-> i.log]
      ELSE LET c == Call(f, i.r.a, i.log)
           IN  [ret |-> Ok(c.y), log |-> c.log]

MapErrorDropsF(fa, f, l) ==
  LET i == Invoke(fa, l)
  IN  IF i.r.err # Nil THEN [ret |-> Error(i.r.err), log |-> i.log]
      ELSE [ret |-> fa, log |-> i.log]

MapError(fa, f, l) ==
  LET i == Invoke(fa, l)
  IN  IF i.r.err # Nil
      THEN LET c == CallE(f, i.r.err, i.log)
           IN  [ret |-> Error(c.y), log |-> c.log]
      ELSE [ret |-> fa, log |-> i.log]

ApArgumentFirst(fab, fa, l) ==
  LET j == Invoke(fa, l)
      i == Invoke(fab, j.log)
  IN  IF i.r.err # Nil THEN [ret |-> Error(i.r.err), log |-> i.log]
      ELSE IF j.r.err # Nil THEN [ret |-> Error(j.r.err), log |-> i.log]
      ELSE LET c == Call(Fn("ab", i.r.a), j.r.a, i.log)
           IN  [ret |-> Ok(c.y), log |-> c.log]

Ap(fab, fa, l) ==
  LET i == Invoke(fab, l)
  IN  IF i.r.err # Nil THEN [ret |-> Error(i.r.err), log |-> i.log]
      ELSE LET j == Invoke(fa, i.log)
           IN  IF j.r.err # Nil THEN [ret |-> Error(j.r.err), log |-> j.log]
               ELSE LET c == Call(Fn("ab", i.r.a), j.r.a, j.log)
                    IN  [ret |-> Ok(c.y), log |-> c.log]

Bimap(fa, f, g, l) ==
  LET i == Invoke(fa, l)
  IN  IF i.r.err # Nil
      THEN LET c == CallE(f, i.r.err, i.log)
           IN  [ret |-> Error(c.y), log |-> c.log]
      ELSE LET c == Call(g, i.r.a, i.log)
           IN  [ret |-> Ok(c.y), log |-> c.log]

\* A caller's func(A) Result[B] f, or func(error) Result[A] onError.
User(f) == [kind |-> "user", f |-> f]

\* The function Ok, passed as a func(A) Result[A].
OkK == [kind |-> "ok"]

\* The caller's closure  a => Chain(f(a), g)  of the associativity law.
AssocK(f, g) == [kind |-> "assoc", f |-> f, g |-> g]

\* The closure ChainFirst passes to Chain.
ChainFirstK(f) == [kind |-> "chainFirst", f |-> f]

\* The closure FilterOrElse passes to Chain.
FilterK(predicate, onFalse) ==
  [kind |-> "filter", predicate |-> predicate, onFalse |-> onFalse]

\* Calling a caller's function that returns a Result: f(a), onError(err).
CallK(f, a, l) == [ret |-> f.tab[a], log |-> Append(l, Called(f.name, a, Nil))]

CallKE(f, e, l) == [ret |-> f.tab[e], log |-> Append(l, Called(f.name, ZeroA, e))]

\* fst[A, B]: a => (b => a).
fstSwapped == [a \in Val |-> [b \in Val |-> b]]

fst == [a \in Val |-> [b \in Val |-> a]]

\* snd[A, B]: a => (b => b).
snd == [a \in Val |-> [b \in Val |-> b]]

RECURSIVE Chain(_, _, _)

\* func(a A) Result[A] { return Map(f(a), fst[A, B](a)) }
ChainFirstClosure(f, a, l) ==
  LET c == CallK(f, a, l)
  IN  Map(c.ret, Fn("fst", fst[a]), c.log)

\* func(a A) Result[A] { if predicate(a) { Ok(a) } else { Error(onFalse(a)) } }
FilterOrElseClosure(predicate, onFalse, a, l) ==
  LET p == Call(predicate, a, l)
  IN  IF p.y THEN [ret |-> Ok(a), log |-> p.log]
      ELSE LET c == Call(onFalse, a, p.log)
           IN  [ret |-> Error(c.y), log |-> c.log]

\* f(a) for each kind of f that Chain is given.
ApplyK(k, a, l) ==
  CASE k.kind = "user" -> CallK(k.f, a, l)
    [] k.kind = "ok" -> [ret |-> Ok(a), log |-> l]
    [] k.kind = "chainFirst" -> ChainFirstClosure(k.f, a, l)
    [] k.kind = "filter" -> FilterOrElseClosure(k.predicate, k.onFalse, a, l)
    [] k.kind = "assoc" ->
         LET c == CallK(k.f, a, l)
         IN  Chain(c.ret, User(k.g), c.log)

ChainKeepsValue(ma, k, l) ==
  LET i == Invoke(ma, l)
  IN  IF i.r.err # Nil THEN [ret |-> Error(i.r.err), log |-> i.log]
      ELSE [ret |-> Ok(i.r.a), log |-> ApplyK(k, i.r.a, i.log).log]

Chain(ma, k, l) ==
  LET i == Invoke(ma, l)
  IN  IF i.r.err # Nil THEN [ret |-> Error(i.r.err), log |-> i.log]
      ELSE ApplyK(k, i.r.a, i.log)

ChainFirst(ma, f, l) == Chain(ma, ChainFirstK(f), l)

ApFirst(fa, fb, l) ==
  LET m == Map(fa, Fn("fst", fst), l)
  IN  Ap(m.ret, fb, m.log)

ApSecond(fa, fb, l) ==
  LET m == Map(fa, Fn("snd", snd), l)
  IN  Ap(m.ret, fb, m.log)

FoldCallsBoth(ma, onError, onSuccess, l) ==
  LET i == Invoke(ma, l)
      c == Call(onSuccess, i.r.a, i.log)
  IN  IF i.r.err # Nil THEN CallE(onError, i.r.err, c.log) ELSE c

Fold(ma, onError, onSuccess, l) ==
  LET i == Invoke(ma, l)
  IN  IF i.r.err # Nil THEN CallE(onError, i.r.err, i.log)
      ELSE Call(onSuccess, i.r.a, i.log)

GetOrElse(ma, onError, l) ==
  LET i == Invoke(ma, l)
  IN  IF i.r.err # Nil THEN CallE(onError, i.r.err, i.log)
      ELSE [y |-> i.r.a, log |-> i.log]

OrElseAlwaysRecovers(ma, onError, l) ==
  LET i == Invoke(ma, l)
  IN  CallKE(onError, IF i.r.err # Nil THEN i.r.err ELSE "failed", i.log)

OrElse(ma, onError, l) ==
  LET i == Invoke(ma, l)
  IN  IF i.r.err # Nil THEN CallKE(onError, i.r.err, i.log)
      ELSE [ret |-> ma, log |-> i.log]

FilterOrElse(ma, predicate, onFalse, l) ==
  Chain(ma, FilterK(predicate, onFalse), l)

\* Fork returns nothing: only the log changes.
Fork(ma, onError, onSuccess, l) ==
  LET i == Invoke(ma, l)
  IN  IF i.r.err # Nil THEN [log |-> CallE(onError, i.r.err, i.log).log]
      ELSE [log |-> Call(onSuccess, i.r.a, i.log).log]

\* A Nilable[A] is a *A: nil, or the address of a cell of the heap h.
NilPtr == "nilptr"

FromNilableSpeculative(ma, onNil, h, l) ==
  LET c == Call0(onNil, l)
  IN  IF ma = NilPtr THEN [ret |-> Error(c.y), log |-> c.log, heap |-> h]
      ELSE [ret |-> Ok(h[ma]), log |-> c.log, heap |-> h]

FromNilable(ma, onNil, h, l) ==
  IF ma = NilPtr
  THEN LET c == Call0(onNil, l)
       IN  [ret |-> Error(c.y), log |-> c.log, heap |-> h]
  ELSE [ret |-> Ok(h[ma]), log |-> l, heap |-> h]

\* ------------------------------------------------------------ the program

Init ==
  /\ pc = "idle"
  /\ op = "none"
  /\ inp = [none |-> TRUE]
  /\ ret = Ok(ZeroA)
  /\ blog = << >>
  /\ log = << >>
  /\ out = Zero
  /\ alt = Zero
  /\ heap = [p \in {"p"} |-> ZeroA]

\* The constant Results a caller's function may return: Ok(a) or Error(err).
Consts == {Ok(a) : a \in Val} \cup {Error(e) : e \in Err}

\* The Results a caller's func(A) Result[B] may return: a constant one, or a
\* closure of the caller's that succeeds when first invoked and fails afterwards.
Results == Consts \cup {Src("fk", Pair(MaxVal, Nil), Pair(ZeroA, "failed"))}

\* The pair the first invocation of c returns.
FirstOf(c) == IF c.k = "const" THEN c.r ELSE c.first

\* The caller builds a combinator: pc idle -> built.
Built(name, in, b) ==
  /\ pc' = "built"
  /\ op' = name
  /\ inp' = in
  /\ ret' = b.ret
  /\ blog' = b.log
  /\ log' = b.log
  /\ UNCHANGED <<out, alt, heap>>

BuildMap ==
  /\ pc = "idle"
  /\ \E fa \in Sources("fa", Outcome), t \in [Val -> Val] :
    Built("Map", [fa |-> fa, f |-> Fn("f", t)], Map(fa, Fn("f", t), << >>))

BuildMapError ==
  /\ pc = "idle"
  /\ \E fa \in Sources("fa", Outcome), t \in [Err -> Err] :
    Built("MapError", [fa |-> fa, f |-> Fn("f", t)],
          MapError(fa, Fn("f", t), << >>))

BuildBimap ==
  /\ pc = "idle"
  /\ \E fa \in Sources("fa", Outcome), t \in [Err -> Err], u \in [Val -> Val] :
    Built("Bimap", [fa |-> fa, f |-> Fn("f", t), g |-> Fn("g", u)],
          Bimap(fa, Fn("f", t), Fn("g", u), << >>))

BuildAp ==
  /\ pc = "idle"
  /\ \E fab \in Stable("fab", OutcomeF), fa \in Sources("fa", Outcome) :
    Built("Ap", [fab |-> fab, fa |-> fa], Ap(fab, fa, << >>))

BuildChain ==
  /\ pc = "idle"
  /\ \E ma \in Sources("ma", Outcome), t \in [Val -> Results] :
    Built("Chain", [ma |-> ma, f |-> Fn("f", t)],
          Chain(ma, User(Fn("f", t)), << >>))

BuildChainFirst ==
  /\ pc = "idle"
  /\ \E ma \in Sources("ma", Outcome), t \in [Val -> Results] :
    Built("ChainFirst", [ma |-> ma, f |-> Fn("f", t)],
          ChainFirst(ma, Fn("f", t), << >>))

BuildApFirst ==
  /\ pc = "idle"
  /\ \E fa \in Sources("fa", Outcome), fb \in Sources("fb", Outcome) :
    Built("ApFirst", [fa |-> fa, fb |-> fb], ApFirst(fa, fb, << >>))

BuildApSecond ==
  /\ pc = "idle"
  /\ \E fa \in Sources("fa", Outcome), fb \in Sources("fb", Outcome) :
    Built("ApSecond", [fa |-> fa, fb |-> fb], ApSecond(fa, fb, << >>))

BuildFilterOrElse ==
  /\ pc = "idle"
  /\ \E ma \in Sources("ma", Outcome), t \in [Val -> BOOLEAN], u \in [Val -> Err] :
    Built("FilterOrElse",
          [ma |-> ma, predicate |-> Fn("predicate", t), onFalse |-> Fn("onFalse", u)],
          FilterOrElse(ma, Fn("predicate", t), Fn("onFalse", u), << >>))

BuildOrElse ==
  /\ pc = "idle"
  /\ \E ma \in Sources("ma", Outcome), t \in [Err -> Consts] :
    Built("OrElse", [ma |-> ma, onError |-> Fn("onError", t)],
          OrElse(ma, Fn("onError", t), << >>))

\* The caller allocates (or not) the cell that ma points to, then builds.
BuildFromNilable ==
  /\ pc = "idle"
  /\ \E ma \in {NilPtr, "p"}, v \in Val, e \in Err :
    LET h == [heap EXCEPT !["p"] = v]
        b == FromNilable(ma, Fn("onNil", e), h, << >>)
    IN  /\ pc' = "built"
        /\ op' = "FromNilable"
        /\ inp' = [ma |-> ma, onNil |-> Fn("onNil", e), heap |-> h]
        /\ ret' = b.ret
        /\ blog' = b.log
        /\ log' = b.log
        /\ heap' = b.heap
        /\ UNCHANGED <<out, alt>>

\* The caller invokes the Result a combinator returned: pc built -> done.
Run ==
  /\ pc = "built"
  /\ pc' = "done"
  /\ LET i == Invoke(ret, log)
     IN  /\ out' = i.r
         /\ log' = i.log
  /\ UNCHANGED <<op, inp, ret, blog, alt, heap>>

\* The eager consumers: pc idle -> done; ret is the value returned.
DoFold ==
  /\ pc = "idle"
  /\ \E ma \in Sources("ma", Outcome), t \in [Err -> Val], u \in [Val -> Val] :
    LET b == Fold(ma, Fn("onError", t), Fn("onSuccess", u), << >>)
    IN  /\ pc' = "done"
        /\ op' = "Fold"
        /\ inp' = [ma |-> ma, onError |-> Fn("onError", t),
                   onSuccess |-> Fn("onSuccess", u)]
        /\ ret' = b.y
        /\ blog' = b.log
        /\ log' = b.log
        /\ UNCHANGED <<out, alt, heap>>

DoFork ==
  /\ pc = "idle"
  /\ \E ma \in Sources("ma", Outcome) :
    LET b == Fork(ma, Fn("onError", [e \in Err |-> ZeroA]),
                  Fn("onSuccess", [a \in Val |-> ZeroA]), << >>)
    IN  /\ pc' = "done"
        /\ op' = "Fork"
        /\ inp' = [ma |-> ma]
        /\ blog' = b.log
        /\ log' = b.log
        /\ UNCHANGED <<ret, out, alt, heap>>

DoGetOrElse ==
  /\ pc = "idle"
  /\ \E ma \in Sources("ma", Outcome), t \in [Err -> Val] :
    LET b == GetOrElse(ma, Fn("onError", t), << >>)
    IN  /\ pc' = "done"
        /\ op' = "GetOrElse"
        /\ inp' = [ma |-> ma, onError |-> Fn("onError", t)]
        /\ ret' = b.y
        /\ blog' = b.log
        /\ log' = b.log
        /\ UNCHANGED <<out, alt, heap>>

\* Building b and invoking the Result it returned.
RunOf(b) == Invoke(b.ret, b.log)

\* The two sides of a law, each run from an empty log: pc idle -> law.
\* out and log are the left side's outcome and log, alt and blog the right's.
Law(name, in, lhs, rhs) ==
  /\ pc' = "law"
  /\ op' = name
  /\ inp' = in
  /\ out' = lhs.r
  /\ log' = lhs.log
  /\ alt' = rhs.r
  /\ blog' = rhs.log
  /\ UNCHANGED <<ret, heap>>

\* Map(fa, identity) against fa.
LawFunctorIdentity ==
  /\ pc = "idle"
  /\ \E fa \in Sources("fa", Outcome) :
    Law("functorIdentity", [fa |-> fa],
        RunOf(Map(fa, Fn("identity", [a \in Val |-> a]), << >>)),
        Invoke(fa, << >>))

\* Map(Map(fa, f), g) against Map(fa, g . f).
LawFunctorComposition ==
  /\ pc = "idle"
  /\ \E fa \in Sources("fa", Outcome), t \in [Val -> Val], u \in [Val -> Val] :
    LET m == Map(fa, Fn("f", t), << >>)
    IN  Law("functorComposition", [fa |-> fa, f |-> Fn("f", t), g |-> Fn("g", u)],
            RunOf(Map(m.ret, Fn("g", u), m.log)),
            RunOf(Map(fa, Fn("g.f", [a \in Val |-> u[t[a]]]), << >>)))

\* Chain(Ok(a), f) against f(a).
LawLeftIdentity ==
  /\ pc = "idle"
  /\ \E a \in Val, t \in [Val -> Results] :
    Law("leftIdentity", [a |-> a, f |-> Fn("f", t)],
        RunOf(Chain(Ok(a), User(Fn("f", t)), << >>)),
        RunOf(CallK(Fn("f", t), a, << >>)))

\* Chain(ma, Ok) against ma.
LawRightIdentity ==
  /\ pc = "idle"
  /\ \E ma \in Sources("ma", Outcome) :
    Law("rightIdentity", [ma |-> ma],
        RunOf(Chain(ma, OkK, << >>)),
        Invoke(ma, << >>))

\* Chain(Chain(ma, f), g) against Chain(ma, a => Chain(f(a), g)).
LawAssociativity ==
  /\ pc = "idle"
  /\ \E ma \in Stable("ma", Outcome), t \in [Val -> Results], u \in [Val -> Results] :
    LET c == Chain(ma, User(Fn("f", t)), << >>)
    IN  Law("associativity", [ma |-> ma, f |-> Fn("f", t), g |-> Fn("g", u)],
            RunOf(Chain(c.ret, User(Fn("g", u)), c.log)),
            RunOf(Chain(ma, AssocK(Fn("f", t), Fn("g", u)), << >>)))

Next ==
  \/ BuildMap
  \/ BuildMapError
  \/ BuildBimap
  \/ BuildAp
  \/ BuildChain
  \/ BuildChainFirst
  \/ BuildApFirst
  \/ BuildApSecond
  \/ BuildFilterOrElse
  \/ BuildOrElse
  \/ BuildFromNilable
  \/ Run
  \/ DoFold
  \/ DoFork
  \/ DoGetOrElse
  \/ LawFunctorIdentity
  \/ LawFunctorComposition
  \/ LawLeftIdentity
  \/ LawRightIdentity
  \/ LawAssociativity

Spec == Init /\ [][Next]_vars

\* ------------------------------------------------------------ properties

Transformations ==
  {"Map", "MapError", "Bimap", "Ap", "Chain", "ChainFirst", "ApFirst",
   "ApSecond", "FilterOrElse", "OrElse"}

InputIds == {"fa", "fb", "fab", "ma"}

Success(a) == [ok |-> TRUE, a |-> a, err |-> Nil]

Failure(e) == [ok |-> FALSE, a |-> ZeroA, err |-> e]

Invocations(l, id) == Occurrences(l, "invoke", id)

Calls(l, name) == Occurrences(l, "call", name)

\* The pairs that the invocations of c recorded in l returned.
Returned(c, l) ==
  (IF Count(l, "invoke", c.id) >= 1 THEN {c.first} ELSE {})
    \cup (IF Count(l, "invoke", c.id) >= 2 THEN {c.rest} ELSE {})

\* c was invoked, and each invocation succeeded with a / failed with e.
SucceedsWith(c, l, a) ==
  Returned(c, l) # {} /\ \A r \in Returned(c, l) : r.err = Nil /\ r.a = a

FailsWith(c, l, e) ==
  Returned(c, l) # {} /\ \A r \in Returned(c, l) : r.err = e

\* C1: Ap(fab, fa) invokes fab first; if fab fails with e, fa is never invoked
\* and the result fails with e; if fab succeeds and fa fails with e', the result
\* fails with e'; if both succeed with g and a, the result succeeds with g(a).
ThmApOrder ==
  (op = "Ap" /\ pc \in {"built", "done"}) =>
    LET fab == inp.fab.first
        fa == inp.fa.first
    IN  /\ Count(log, "invoke", "fab") = 1
        /\ \A i \in Invocations(log, "fab"), j \in Invocations(log, "fa") : i < j
        /\ fab.err # Nil =>
             /\ Count(log, "invoke", "fa") = 0
             /\ pc = "done" => Observed(out) = Failure(fab.err)
        /\ (fab.err = Nil /\ fa.err # Nil) =>
             (pc = "done" => Observed(out) = Failure(fa.err))
        /\ (fab.err = Nil /\ fa.err = Nil) =>
             (pc = "done" => Observed(out) = Success(fab.a[fa.a]))

WitApShortCircuit ==
  /\ op = "Ap" /\ pc = "done"
  /\ inp.fab.first.err = "failed"
  /\ inp.fa.first.err = Nil
  /\ Count(log, "invoke", "fa") = 0
  /\ Observed(out) = Failure("failed")

\* C2: building a transformation combinator invokes no input computation: in
\* the state where the combinator has returned and the caller has not yet
\* invoked the returned computation, no invocation has happened.
ClaimLazy ==
  (pc = "built" /\ op \in Transformations) =>
    \A id \in InputIds : Count(log, "invoke", id) = 0

\* C3: the monad laws of Chain on observed outcomes: left identity, right
\* identity and associativity; when ma fails, f is not called and ma's error
\* propagates.
ThmMonadLaws ==
  /\ (pc = "law" /\ op \in {"leftIdentity", "rightIdentity", "associativity"}) =>
       Observed(out) = Observed(alt)
  /\ (pc = "law" /\ op \in {"rightIdentity", "associativity"}
        /\ inp.ma.first.err # Nil) =>
       /\ Observed(out) = Failure(inp.ma.first.err)
       /\ Calls(log, "f") \cup Calls(log, "g") = {}
       /\ Calls(blog, "f") \cup Calls(blog, "g") = {}
  /\ (pc \in {"built", "done"} /\ op = "Chain" /\ inp.ma.first.err # Nil) =>
       /\ Calls(log, "f") = {}
       /\ pc = "done" => Observed(out) = Failure(inp.ma.first.err)
  /\ (pc = "done" /\ op = "Chain" /\ inp.ma.first.err = Nil) =>
       /\ Count(log, "call", "f") = 1
       /\ Observed(out) = Observed(FirstOf(inp.f.tab[inp.ma.first.a]))

WitAssociativity ==
  /\ pc = "law" /\ op = "associativity"
  /\ inp.ma.first.err = Nil
  /\ out.err = Nil
  /\ out.a # inp.ma.first.a
  /\ Count(log, "call", "f") = 1 /\ Count(log, "call", "g") = 1
  /\ Count(blog, "call", "f") = 1 /\ Count(blog, "call", "g") = 1

\* C4: the functor laws of Map on observed outcomes: Map(fa, identity) yields
\* what fa yields and Map(Map(fa, f), g) what Map(fa, g . f) yields; when fa
\* fails the error is propagated unchanged and no mapping function is called.
ThmFunctorLaws ==
  /\ (pc = "law" /\ op \in {"functorIdentity", "functorComposition"}) =>
       /\ Observed(out) = Observed(alt)
       /\ inp.fa.first.err # Nil =>
            /\ Observed(out) = Failure(inp.fa.first.err)
            /\ \A l \in {log, blog} : \A i \in DOMAIN l : l[i].ev # "call"
  /\ (pc = "done" /\ op = "Map") =>
       IF inp.fa.first.err # Nil
       THEN /\ Observed(out) = Failure(inp.fa.first.err)
            /\ Calls(log, "f") = {}
       ELSE Observed(out) = Success(inp.f.tab[inp.fa.first.a])

WitFunctorComposition ==
  /\ pc = "law" /\ op = "functorComposition"
  /\ inp.fa.first.err = Nil
  /\ inp.f.tab[inp.fa.first.a] # inp.fa.first.a
  /\ out.a = inp.g.tab[inp.f.tab[inp.fa.first.a]]
  /\ out.a # inp.f.tab[inp.fa.first.a]

\* C5: when fa and fb succeed with a and b, ApFirst(fa, fb) succeeds with a and
\* ApSecond(fa, fb) with b, fa invoked before fb; when fa fails with e both
\* fail with e and fb is never invoked; when fa succeeds and fb fails with e',
\* both fail with e'.
ThmApFirstSecond ==
  (pc = "done" /\ op \in {"ApFirst", "ApSecond"}) =>
    LET fa == inp.fa.first
        fb == inp.fb.first
    IN  /\ (fa.err = Nil /\ fb.err = Nil) =>
             /\ Observed(out) = Success(IF op = "ApFirst" THEN fa.a ELSE fb.a)
             /\ Count(log, "invoke", "fa") = 1
             /\ Count(log, "invoke", "fb") = 1
             /\ \A i \in Invocations(log, "fa"), j \in Invocations(log, "fb") : i < j
        /\ fa.err # Nil =>
             /\ Observed(out) = Failure(fa.err)
             /\ Count(log, "invoke", "fb") = 0
        /\ (fa.err = Nil /\ fb.err # Nil) => Observed(out) = Failure(fb.err)

WitApFirst ==
  /\ pc = "done" /\ op = "ApFirst"
  /\ inp.fa.first = Pair(1, Nil)
  /\ inp.fb.first = Pair(0, Nil)
  /\ Observed(out) = Success(1)

\* C6: Fold and Fork invoke ma exactly once and then call exactly one handler
\* exactly once: onSuccess with ma's value when ma succeeds, onError with ma's
\* error when it fails; Fold returns what that handler returned.
ThmFoldFork ==
  (pc = "done" /\ op \in {"Fold", "Fork"}) =>
    LET ma == inp.ma.first
    IN  /\ ma.err = Nil => log = <<Invoked("ma"), Called("onSuccess", ma.a, Nil)>>
        /\ ma.err # Nil => log = <<Invoked("ma"), Called("onError", ZeroA, ma.err)>>
        /\ (op = "Fold" /\ ma.err = Nil) => ret = inp.onSuccess.tab[ma.a]
        /\ (op = "Fold" /\ ma.err # Nil) => ret = inp.onError.tab[ma.err]

WitFoldOnError ==
  /\ pc = "done" /\ op = "Fold"
  /\ inp.ma.first.err = "failed"
  /\ inp.onError.tab["failed"] = 1
  /\ inp.onError.tab["wrapped: failed"] = 0
  /\ ret = 1
  /\ Calls(log, "onSuccess") = {}

\* C7: when ma succeeds with x, OrElse(ma, onError) returns the computation ma
\* itself and onError is never called; when ma fails with e, onError is called
\* exactly once, with e, and OrElse returns the computation onError(e).
ThmOrElse ==
  (op = "OrElse" /\ pc \in {"built", "done"}) =>
    LET ma == inp.ma.first
    IN  /\ ma.err = Nil =>
             /\ ret = inp.ma
             /\ Calls(log, "onError") = {}
             /\ \A x \in Val :
                  (pc = "done" /\ SucceedsWith(inp.ma, log, x)) =>
                    Observed(out) = Success(x)
        /\ ma.err # Nil =>
             /\ Count(log, "call", "onError") = 1
             /\ \A i \in Calls(log, "onError") : log[i].e = ma.err
             /\ ret = inp.onError.tab[ma.err]
             /\ pc = "done" => out = inp.onError.tab[ma.err].r

WitOrElseSuccess ==
  /\ op = "OrElse" /\ pc = "done"
  /\ inp.ma.first = Pair(1, Nil)
  /\ inp.ma.rest = Pair(1, Nil)
  /\ ret = inp.ma
  /\ Observed(out) = Success(1)

\* C8: FromNilable(ref, onNil): when ref is nil the result fails with the error
\* onNil() returned; when ref is present the result succeeds with the value
\* ref points to and onNil is never called; the value pointed to is unchanged.
ThmFromNilable ==
  (op = "FromNilable" /\ pc \in {"built", "done"}) =>
    /\ heap = inp.heap
    /\ inp.ma = NilPtr =>
         /\ Count(log, "call", "onNil") = 1
         /\ pc = "done" => Observed(out) = Failure(inp.onNil.tab)
    /\ inp.ma # NilPtr =>
         /\ Calls(log, "onNil") = {}
         /\ pc = "done" => Observed(out) = Success(inp.heap[inp.ma])

WitFromNilablePresent ==
  /\ op = "FromNilable" /\ pc = "done"
  /\ inp.ma = "p"
  /\ inp.heap["p"] = 1
  /\ Observed(out) = Success(1)

\* C9: when fa succeeds with a, MapError(fa, f) succeeds with a and f is never
\* called; when fa fails with e, MapError(fa, f) fails with f(e) and f is
\* called exactly once.
ThmMapError ==
  (op = "MapError" /\ pc = "done") =>
    /\ \A a \in Val :
         SucceedsWith(inp.fa, log, a) =>
           /\ Observed(out) = Success(a)
           /\ Calls(log, "f") = {}
    /\ \A e \in Err :
         FailsWith(inp.fa, log, e) =>
           /\ Observed(out) = Failure(inp.f.tab[e])
           /\ Count(log, "call", "f") = 1
           /\ \A i \in Calls(log, "f") : log[i].e = e

WitMapErrorFailure ==
  /\ op = "MapError" /\ pc = "done"
  /\ inp.fa.first.err = "failed"
  /\ inp.f.tab["failed"] = "wrapped: failed"
  /\ Observed(out) = Failure("wrapped: failed")

\* C10: building a transformation combinator and then invoking the returned
\* computation once invokes each input computation at most once in total.
ClaimInvokedAtMostOnce ==
  (pc = "done" /\ op \in Transformations) =>
    \A id \in InputIds : Count(log, "invoke", id) <= 1

====
